---- MODULE Spec2Model ----
(***************************************************************************)
(* A model of the transaction codec and signing core of py-stellar-base:   *)
(*   stellar_sdk/transaction_envelope.py   TransactionEnvelope             *)
(*   stellar_sdk/transaction.py            Transaction                     *)
(*   stellar_sdk/operation/operation.py    Operation, amount conversion    *)
(*   stellar_sdk/exceptions.py             the error classes               *)
(*                                                                         *)
(* A Python call either returns a value or raises; every method is an      *)
(* operator that yields the outcome of the call together with the object   *)
(* as the call leaves it.  Python resolves a name when the statement that  *)
(* uses it runs: a statement that reads a name which neither the function  *)
(* nor the module nor the builtins bind raises NameError there, and the    *)
(* statements after it do not run.                                         *)
(***************************************************************************)
EXTENDS Integers, Sequences, FiniteSets, TLC

(***************************************************************************)
(* Bounds of the model.                                                    *)
(***************************************************************************)
\* The number of calls made on one envelope.
MaxCalls == 2
\* The number of digits before the decimal point of an enumerated amount.
MaxIntDigits == 2
\* The number of digits after the decimal point of an enumerated amount.
MaxFracDigits == 8

(***************************************************************************)
(* Python values.                                                          *)
(***************************************************************************)
\* Optional[T]: None is the empty tuple, a value x is <<x>>.
None == <<>>
Some(x) == <<x>>

\* The outcome of a call: a returned value or a raised exception.
Return(v) == [kind |-> "return", exc |-> "", detail |-> "", value |-> <<v>>]
Raise(e, detail) == [kind |-> "raise", exc |-> e, detail |-> detail, value |-> <<>>]

\* NameError: the statement reads a name that nothing binds.
NameError(name) == Raise("NameError", name)

Returned(out) == out.kind = "return"
Raised(out, e) == out.kind = "raise" /\ out.exc = e

(***************************************************************************)
(* exceptions.py: the classes and their bases.  A class that is not listed *)
(* (NameError, decimal.Inexact, the builtins) is Python's own.             *)
(***************************************************************************)
Bases ==
    [ SdkError |-> {"builtins.Exception"},
      ValueError |-> {"builtins.ValueError", "SdkError"},
      TypeError |-> {"builtins.TypeError", "SdkError"},
      BadSignatureError |-> {"ValueError"},
      Ed25519PublicKeyInvalidError |-> {"ValueError"},
      Ed25519SecretSeedInvalidError |-> {"ValueError"},
      MissingEd25519SecretSeedError |-> {"ValueError"},
      MemoInvalidException |-> {"ValueError"},
      AssetCodeInvalidError |-> {"ValueError"},
      AssetIssuerInvalidError |-> {"ValueError"},
      NoApproximationError |-> {"SdkError"},
      SignatureExistError |-> {"ValueError"},
      BaseRequestError |-> {"SdkError"},
      ConnectionError |-> {"BaseRequestError"},
      BaseHorizonError |-> {"BaseRequestError"},
      NotFoundError |-> {"BaseHorizonError"},
      BadRequestError |-> {"BaseHorizonError"},
      BadResponseError |-> {"BaseHorizonError"},
      UnknownRequestError |-> {"BaseHorizonError"} ]

RECURSIVE IsSubclass(_, _)
IsSubclass(c, d) ==
    \/ c = d
    \/ /\ c \in DOMAIN Bases
       /\ \E b \in Bases[c] : IsSubclass(b, d)

(***************************************************************************)
(* Keys, accounts and signatures (keypair.py, muxed_account.py, network.py *)
(* and utils.py are not part of the sources at hand).                      *)
(***************************************************************************)
\* A keypair that holds its secret seed, named by its raw public key: the
\* leading bytes and the last 4 bytes.  Two of the keys end in the same bytes.
Keypairs == { [public_key |-> pk] : pk \in {<<"A", "h1">>, <<"B", "h1">>, <<"A", "h2">>} }

\* Keypair.signature_hint: the last 4 bytes of the public key.
signature_hint(keypair) == keypair.public_key[2]

\* utils.sha256, kept symbolic: equal digests only of equal data.
sha256(data) == <<"sha256", data>>

\* Keypair.sign: ed25519 is deterministic in the key and the data.
Keypair_sign(keypair, data) == <<"ed25519", keypair.public_key, data>>

\* Keypair.sign_decorated: the DecoratedSignature of data.
sign_decorated(keypair, data) ==
    [hint |-> signature_hint(keypair), signature |-> Keypair_sign(keypair, data)]

\* Network(passphrase).network_id(): the SHA-256 of the passphrase.
network_id_of(network_passphrase) == sha256(network_passphrase)

Passphrases == {"Test SDF Network ; September 2015", "Public Global Stellar Network ; September 2015"}

\* MuxedAccount(account_id, account_id_id).
MuxedAccount(account_id, account_id_id) ==
    [account_id |-> account_id, account_id_id |-> account_id_id]

\* An address string: "G" + key for a plain account, "M" + key + id for a muxed one.
MuxedAccount_from_account(account) ==
    IF account.prefix = "M"
    THEN MuxedAccount([prefix |-> "G", key |-> account.key, id |-> None], account.id)
    ELSE MuxedAccount(account, None)

GAddress(pk) == [prefix |-> "G", key |-> pk, id |-> None]
MAddress(pk, id) == [prefix |-> "M", key |-> pk, id |-> Some(id)]

(***************************************************************************)
(* operation/operation.py: class Operation.                                *)
(***************************************************************************)
\* Operation.__init__ (lines 45-49): the optional source override, parsed
\* into a MuxedAccount.  The variant's fields are those of its subclass.
Operation_init(type_code, source, destination) ==
    [ type_code |-> type_code,
      source |-> IF source = None THEN None
                 ELSE Some(MuxedAccount_from_account(source[1])),
      destination |-> destination ]

\* Reading the attribute name of an object: AttributeError when the object
\* has no such attribute.
getattr(object, name) ==
    IF name \in DOMAIN object THEN Return(object[name])
    ELSE Raise("AttributeError", name)

\* Keypair.from_public_key(public_key) decodes a "G" address string; anything
\* else is not an ed25519 public key.
Keypair_from_public_key(public_key) ==
    IF "prefix" \in DOMAIN public_key /\ public_key.prefix = "G"
    THEN Return([public_key |-> public_key.key])
    ELSE Raise("Ed25519PublicKeyInvalidError", "Invalid Ed25519 Public Key")

\* Keypair.xdr_account_id(): the XDR AccountID of the public key.
xdr_account_id(keypair) == [type |-> "PUBLIC_KEY_TYPE_ED25519", ed25519 |-> keypair.public_key]

\* MuxedAccount.from_xdr_object: the account of an XDR MuxedAccount, with
\* its sub-id when the XDR object is of the multiplexed kind.
MuxedAccount_from_xdr_object(muxed_account_xdr_object) ==
    MuxedAccount(GAddress(muxed_account_xdr_object.ed25519),
                 IF muxed_account_xdr_object.type = "KEY_TYPE_MUXED_ED25519"
                 THEN muxed_account_xdr_object.id ELSE None)

\* stellarxdr.Operation(source_account, body), the XDR class of the generated
\* module .xdr.xdr, whose attributes are named as its parameters are.
stellarxdr_Operation(source_account, body) ==
    [source_account |-> source_account, body |-> body]

\* Operation.to_xdr_object (lines 121-132).  With a source override, line 128
\* hands the MuxedAccount itself to Keypair.from_public_key, which decodes an
\* address string: the decoding fails.  Without one the XDR operation holds
\* no source and the body of the variant.
Operation_to_xdr_object(self) ==
    LET body == [type |-> self.type_code, destination |-> self.destination]
    IN  IF self.source # None
        THEN LET keypair == Keypair_from_public_key(self.source[1])
             IN  IF ~Returned(keypair) THEN keypair
                 ELSE Return(stellarxdr_Operation(Some(xdr_account_id(keypair.value[1])), body))
        ELSE Return(stellarxdr_Operation(None, body))

\* cls.__subclasses__() (line 142): the operation variants that are defined,
\* in the order of their definition, each with its type code.
Operation_subclasses ==
    << [name |-> "CreateAccount", type_code |-> "CREATE_ACCOUNT"],
       [name |-> "Payment", type_code |-> "PAYMENT"],
       [name |-> "PathPaymentStrictReceive", type_code |-> "PATH_PAYMENT_STRICT_RECEIVE"],
       [name |-> "ManageData", type_code |-> "MANAGE_DATA"],
       [name |-> "AccountMerge", type_code |-> "ACCOUNT_MERGE"],
       [name |-> "PathPaymentStrictSend", type_code |-> "PATH_PAYMENT_STRICT_SEND"] >>

\* The source of an XDR operation of either XDR layer, as a variant decodes it.
xdr_operation_source(operation_xdr_object) ==
    IF "sourceAccount" \in DOMAIN operation_xdr_object
    THEN operation_xdr_object.sourceAccount
    ELSE operation_xdr_object.source_account

\* sub_cls.from_xdr_object: the instance of the variant that the XDR
\* operation describes.
Variant_from_xdr_object(sub_cls, operation_xdr_object) ==
    LET source == xdr_operation_source(operation_xdr_object)
    IN  Return([ type_code |-> sub_cls.type_code,
                 source |-> IF source = None THEN None
                            ELSE Some(MuxedAccount_from_xdr_object(source[1])),
                 destination |-> operation_xdr_object.body.destination ])

\* from_xdr_object that hands the XDR operation to the first variant there
\* is, without looking at the type code.
Operation_from_xdr_object_first_variant(operation_xdr_object) ==
    Variant_from_xdr_object(Operation_subclasses[1], operation_xdr_object)

\* Operation.from_xdr_object (lines 134-148): the first variant whose type
\* code is the discriminant of the body decodes the operation;
\* NotImplementedError when there is none.
Operation_from_xdr_object(operation_xdr_object) ==
    LET matching == {i \in 1..Len(Operation_subclasses) :
                        Operation_subclasses[i].type_code = operation_xdr_object.body.type}
    IN  IF matching = {} THEN Raise("NotImplementedError", "Operation is not implemented")
        ELSE Variant_from_xdr_object(
                 Operation_subclasses[CHOOSE i \in matching : \A j \in matching : i <= j],
                 operation_xdr_object)

\* Operation.get_source_from_xdr_obj (lines 169-178): line 176 reads the
\* attribute sourceAccount, which an object of the older XDR layer has (a
\* list, empty for no source) and a stellarxdr.Operation has not.
get_source_from_xdr_obj(xdr_object) ==
    LET sourceAccount == getattr(xdr_object, "sourceAccount")
    IN  IF ~Returned(sourceAccount) THEN sourceAccount
        ELSE IF sourceAccount.value[1] # <<>>
        THEN Return(Some(MuxedAccount_from_xdr_object(sourceAccount.value[1][1])))
        ELSE Return(None)

(***************************************************************************)
(* Python's decimal module, as far as the amount conversions use it.  A    *)
(* text is the tuple of its characters; a Decimal is its sign (0 or 1),    *)
(* the digits of its coefficient without leading zeros, and its exponent;  *)
(* a Python int, which has no width, is its sign and its digits.           *)
(***************************************************************************)
DigitChar == <<"0", "1", "2", "3", "4", "5", "6", "7", "8", "9">>
DigitChars == {DigitChar[i] : i \in 1..10}
DigitOf(c) == (CHOOSE i \in 1..10 : DigitChar[i] = c) - 1
DigitsOf(s) == [i \in 1..Len(s) |-> DigitOf(s[i])]
CharsOf(digits) == [i \in 1..Len(digits) |-> DigitChar[digits[i] + 1]]
Zeros(n) == [i \in 1..n |-> 0]
AllZero(digits) == \A i \in 1..Len(digits) : digits[i] = 0

\* str(int(text)): the digits without leading zeros, 0 for no digit at all.
RECURSIVE StripLeadingZeros(_)
StripLeadingZeros(digits) ==
    IF digits = <<>> THEN <<0>>
    ELSE IF Len(digits) > 1 /\ digits[1] = 0 THEN StripLeadingZeros(Tail(digits))
    ELSE digits

\* int(coefficient) + 1 on the digits.
RECURSIVE Increment(_)
Increment(digits) ==
    IF digits = <<>> THEN <<1>>
    ELSE IF digits[Len(digits)] < 9
    THEN [digits EXCEPT ![Len(digits)] = @ + 1]
    ELSE Append(Increment(SubSeq(digits, 1, Len(digits) - 1)), 0)

\* The decimal digits of a natural number.
RECURSIVE NatDigits(_)
NatDigits(n) == IF n < 10 THEN <<n>> ELSE Append(NatDigits(n \div 10), n % 10)

PyInt(neg, digits) == [type |-> "int", neg |-> neg, digits |-> digits]
PyStr(chars) == [type |-> "str", chars |-> chars]

\* a > b on the digits of two natural numbers.
DigitsGreater(a, b) ==
    \/ Len(a) > Len(b)
    \/ /\ Len(a) = Len(b)
       /\ \E i \in 1..Len(a) : /\ a[i] > b[i]
                               /\ \A j \in 1..(i - 1) : a[j] = b[j]

\* The precision of the default context, under which Decimal arithmetic
\* rounds (ROUND_HALF_EVEN) without trapping Inexact.
Prec == 28

\* The value of a short run of digits (an exponent) as a number.
RECURSIVE NatOf(_)
NatOf(digits) ==
    IF digits = <<>> THEN 0
    ELSE 10 * NatOf(SubSeq(digits, 1, Len(digits) - 1)) + digits[Len(digits)]

\* Decimal(text): an optional sign, digits with at most one point and at
\* least one digit, and an optional exponent (E, an optional sign, digits).
\* Anything else is a conversion syntax error, which the default context
\* traps: decimal.InvalidOperation.  (Texts with underscores, blanks, Inf or
\* NaN are outside the texts the model draws.)
Decimal_from_str(chars) ==
    LET signed == chars # <<>> /\ chars[1] \in {"-", "+"}
        unsigned == IF signed THEN Tail(chars) ELSE chars
        es == {i \in 1..Len(unsigned) : unsigned[i] \in {"E", "e"}}
        e == IF es = {} THEN Len(unsigned) + 1
             ELSE CHOOSE i \in es : \A j \in es : i <= j
        body == SubSeq(unsigned, 1, e - 1)
        exptext == SubSeq(unsigned, e + 1, Len(unsigned))
        expsigned == exptext # <<>> /\ exptext[1] \in {"-", "+"}
        expdigits == IF expsigned THEN Tail(exptext) ELSE exptext
        points == {i \in 1..Len(body) : body[i] = "."}
        point == IF points = {} THEN Len(body) + 1
                 ELSE CHOOSE i \in points : \A j \in points : i <= j
        intpart == SubSeq(body, 1, point - 1)
        fracpart == SubSeq(body, point + 1, Len(body))
        digits == intpart \o fracpart
    IN  IF /\ \A i \in 1..Len(digits) : digits[i] \in DigitChars
           /\ digits # <<>>
           /\ \A i \in 1..Len(expdigits) : expdigits[i] \in DigitChars
           /\ es # {} => expdigits # <<>>
        THEN LET exp == IF expsigned /\ exptext[1] = "-"
                        THEN 0 - NatOf(DigitsOf(expdigits))
                        ELSE NatOf(DigitsOf(expdigits))
             IN  Return([ sign |-> IF signed /\ chars[1] = "-" THEN 1 ELSE 0,
                          int |-> StripLeadingZeros(DigitsOf(digits)),
                          exp |-> exp - Len(fracpart) ])
        ELSE Raise("InvalidOperation", "ConversionSyntax")

\* Decimal(int): exact.
Decimal_from_int(n) ==
    [sign |-> IF n.neg THEN 1 ELSE 0, int |-> n.digits, exp |-> 0]

\* Decimal._round_half_even: 1 to round the kept digits up, 0 when the
\* dropped digits are all zero, -1 to round down.
round_half_even(int, keep) ==
    LET rest == SubSeq(int, keep + 1, Len(int))
        exact_half == rest[1] = 5 /\ AllZero(Tail(rest))
    IN  IF exact_half /\ (keep = 0 \/ int[keep] % 2 = 0) THEN -1
        ELSE IF rest[1] >= 5 THEN 1
        ELSE IF AllZero(rest) THEN 0
        ELSE -1

\* Decimal._fix under the default context: a coefficient of more than Prec
\* digits is rounded to Prec digits.
Decimal_fix(d) ==
    IF d.int = <<0>> \/ Len(d.int) <= Prec THEN d
    ELSE LET exp_min == Len(d.int) + d.exp - Prec
             changed == round_half_even(d.int, Prec)
             kept == SubSeq(d.int, 1, Prec)
             coeff == IF changed > 0 THEN Increment(kept) ELSE kept
         IN  IF Len(coeff) > Prec
             THEN [sign |-> d.sign, int |-> SubSeq(coeff, 1, Prec), exp |-> exp_min + 1]
             ELSE [sign |-> d.sign, int |-> coeff, exp |-> exp_min]

\* Operation._ONE (line 43): Decimal(10 ** 7).
ONE == [sign |-> 0, int |-> <<1, 0, 0, 0, 0, 0, 0, 0>>, exp |-> 0]

\* Decimal.__mul__ by a power of ten: the coefficients multiply, the
\* exponents add, and the product is fixed to the context's precision.
Decimal_mul(self, other) ==
    LET resultsign == (self.sign + other.sign) % 2
        resultexp == self.exp + other.exp
    IN  IF self.int = <<0>> \/ other.int = <<0>>
        THEN Decimal_fix([sign |-> resultsign, int |-> <<0>>, exp |-> resultexp])
        ELSE Decimal_fix([ sign |-> resultsign,
                           int |-> self.int \o Zeros(Len(other.int) - 1),
                           exp |-> resultexp ])

\* to_integral_value(rounding=ROUND_DOWN): the digits behind the point are
\* cut off and nothing is trapped.
to_integral_round_down(d) ==
    IF d.exp >= 0 THEN Return(d)
    ELSE LET digits == Len(d.int) + d.exp
         IN  Return([ sign |-> d.sign,
                      int |-> IF digits >= 1 THEN SubSeq(d.int, 1, digits) ELSE <<0>>,
                      exp |-> 0 ])

\* Decimal.to_integral_exact(context=Context(traps=[Inexact])): the value
\* rescaled to exponent 0; when a digit that is dropped is not zero the
\* context traps Inexact.
to_integral_exact(d) ==
    IF d.exp >= 0 THEN Return(d)
    ELSE IF d.int = <<0>> THEN Return([sign |-> d.sign, int |-> <<0>>, exp |-> 0])
    ELSE LET digits == Len(d.int) + d.exp
         IN  IF digits >= 1 /\ AllZero(SubSeq(d.int, digits + 1, Len(d.int)))
             THEN Return([sign |-> d.sign, int |-> SubSeq(d.int, 1, digits), exp |-> 0])
             ELSE Raise("Inexact", "")

\* int(Decimal) of an integral value.
Decimal_int(d) ==
    IF d.int = <<0>> THEN PyInt(FALSE, <<0>>)
    ELSE PyInt(d.sign = 1, d.int \o Zeros(d.exp))

\* Decimal.__truediv__ by _ONE under the default context.  The dividend's
\* coefficient is scaled by 10^shift and divided by 10^7, which leaves no
\* remainder when shift >= 7 (a dividend of at most 30 digits; an int64 has
\* 19); trailing zeros are then dropped until the exponent reaches the ideal
\* exponent, the difference of the two exponents.
Decimal_truediv(self, other) ==
    LET sgn == (self.sign + other.sign) % 2
        ideal_exp == self.exp - other.exp
    IN  IF self.int = <<0>> THEN Decimal_fix([sign |-> sgn, int |-> <<0>>, exp |-> ideal_exp])
        ELSE LET shift == Len(other.int) - Len(self.int) + Prec + 1
                 coeff == self.int \o Zeros(shift - (Len(other.int) - 1))
                 exp == ideal_exp - shift
                 zeros == {k \in 0..Len(coeff) - 1 :
                              AllZero(SubSeq(coeff, Len(coeff) - k + 1, Len(coeff)))}
                 drop == CHOOSE k \in zeros :
                            /\ exp + k <= ideal_exp
                            /\ \A j \in zeros : exp + j <= ideal_exp => j <= k
             IN  Decimal_fix([ sign |-> sgn,
                               int |-> SubSeq(coeff, 1, Len(coeff) - drop),
                               exp |-> exp + drop ])

\* Decimal.__str__: plain notation when the exponent is at most 0 and the
\* number has more than -6 digits left of the point, scientific notation
\* with one digit before the point otherwise.
Decimal_str(d) ==
    LET sgn == IF d.sign = 1 THEN <<"-">> ELSE <<>>
        int == CharsOf(d.int)
        leftdigits == d.exp + Len(int)
        dotplace == IF d.exp <= 0 /\ leftdigits > -6 THEN leftdigits ELSE 1
        intpart == IF dotplace <= 0 THEN <<"0">>
                   ELSE IF dotplace >= Len(int) THEN int \o CharsOf(Zeros(dotplace - Len(int)))
                   ELSE SubSeq(int, 1, dotplace)
        fracpart == IF dotplace <= 0 THEN <<".">> \o CharsOf(Zeros(0 - dotplace)) \o int
                    ELSE IF dotplace >= Len(int) THEN <<>>
                    ELSE <<".">> \o SubSeq(int, dotplace + 1, Len(int))
        e == leftdigits - dotplace
        exp == IF e = 0 THEN <<>>
               ELSE <<"E", IF e < 0 THEN "-" ELSE "+">>
                    \o CharsOf(NatDigits(IF e < 0 THEN 0 - e ELSE e))
    IN  sgn \o intpart \o fracpart \o exp

(***************************************************************************)
(* operation/operation.py: the amount conversions.                         *)
(***************************************************************************)
\* 9223372036854775807 (line 99).
MaxInt64 == <<9, 2, 2, 3, 3, 7, 2, 0, 3, 6, 8, 5, 4, 7, 7, 5, 8, 0, 7>>

\* to_xdr_amount with a type test that lets int through as well:
\* isinstance(value, (str, Decimal, int)).
to_xdr_amount_of_numbers(v) ==
    IF ~(v.type = "str" \/ v.type = "Decimal" \/ v.type = "int")
    THEN Raise("TypeError", "must be of type str or Decimal")
    ELSE LET decimal == CASE v.type = "str" -> Decimal_from_str(v.chars)
                          [] v.type = "int" -> Return(Decimal_from_int(v))
                          [] OTHER -> Return(v.decimal)
         IN  IF ~Returned(decimal) THEN decimal
             ELSE LET integral == to_integral_exact(Decimal_mul(decimal.value[1], ONE))
                  IN  IF Raised(integral, "Inexact")
                      THEN Raise("ValueError", "must have at most 7 digits after the decimal")
                      ELSE LET n == Decimal_int(integral.value[1])
                           IN  IF n.neg \/ DigitsGreater(n.digits, MaxInt64)
                               THEN Raise("ValueError", "must represent a positive number")
                               ELSE Return(n)

\* Operation.to_xdr_amount (lines 55-105).
to_xdr_amount(v) ==
    IF ~(v.type = "str" \/ v.type = "Decimal")
    THEN Raise("TypeError", "must be of type str or Decimal")
    ELSE LET decimal == IF v.type = "str" THEN Decimal_from_str(v.chars) ELSE Return(v.decimal)
         IN  IF ~Returned(decimal) THEN decimal
             ELSE LET integral == to_integral_exact(Decimal_mul(decimal.value[1], ONE))
                  IN  IF Raised(integral, "Inexact")
                      THEN Raise("ValueError", "must have at most 7 digits after the decimal")
                      ELSE LET n == Decimal_int(integral.value[1])
                           IN  IF n.neg \/ DigitsGreater(n.digits, MaxInt64)
                               THEN Raise("ValueError", "must represent a positive number")
                               ELSE Return(n)

\* from_xdr_amount that keeps all seven decimal places of the quotient.
from_xdr_amount_seven_places(v) ==
    Return(PyStr(Decimal_str([ sign |-> IF v.neg THEN 1 ELSE 0,
                               int |-> v.digits, exp |-> 0 - (Len(ONE.int) - 1) ])))

\* Operation.from_xdr_amount (lines 107-115).
from_xdr_amount(v) ==
    Return(PyStr(Decimal_str(Decimal_truediv(Decimal_from_int(v), ONE))))

(***************************************************************************)
(* transaction.py: class Transaction.                                      *)
(***************************************************************************)
NoneMemo == [memo_type |-> "MEMO_NONE", memo |-> None]
TextMemo(text) == [memo_type |-> "MEMO_TEXT", memo |-> Some(text)]

\* Transaction.__init__ (lines 51-78): an absent memo becomes NoneMemo, a
\* Keypair or an address string source becomes a MuxedAccount.
Transaction_init(source, sequence, fee, operations, memo, time_bounds, v1) ==
    [ source |-> CASE source.kind = "Keypair" ->
                        MuxedAccount(GAddress(source.keypair.public_key), None)
                   [] source.kind = "str" -> MuxedAccount_from_account(source.account)
                   [] OTHER -> source.muxed,
      sequence |-> sequence,
      operations |-> operations,
      memo |-> IF memo = None THEN NoneMemo ELSE memo[1],
      fee |-> fee,
      time_bounds |-> time_bounds,
      v1 |-> v1 ]

\* The outcome of the first call that raises among outs, or no_raise.
RECURSIVE FirstRaise(_, _)
FirstRaise(outs, no_raise) ==
    IF outs = <<>> THEN no_raise
    ELSE IF Returned(Head(outs)) THEN FirstRaise(Tail(outs), no_raise)
    ELSE Head(outs)

\* Transaction.to_xdr_object (lines 80-106).  Lines 85-90 encode the memo,
\* the operations in order, the time bounds and the extension; an operation
\* that fails to encode ends the call there.  In the v1 branch line 93 reads
\* the name source_account, which no statement of the function or of the
\* module binds: NameError.  In the v0 branch lines 101-103 derive the
\* ed25519 key of the source and line 104 reads the name Xdr, which the
\* module (imports at lines 1-9) does not bind: NameError.
Transaction_to_xdr_object(self) ==
    LET operations == [i \in 1..Len(self.operations) |->
                          Operation_to_xdr_object(self.operations[i])]
    IN  FirstRaise(operations,
                   IF self.v1 THEN NameError("source_account") ELSE NameError("Xdr"))

\* Memo.from_xdr_object and TimeBounds.from_xdr_object: the SDK value of
\* the XDR value.
Memo_from_xdr_object(xdr_object) ==
    IF xdr_object.type = "MEMO_NONE" THEN NoneMemo ELSE TextMemo(xdr_object.text)

TimeBounds_from_xdr_object(xdr_object) ==
    [min_time |-> xdr_object.min_time, max_time |-> xdr_object.max_time]

\* Transaction.from_xdr_object (lines 108-154), a class method.  Line 125
\* (v1) reads the attribute sourceAccount and line 128 (v0) the attribute
\* sourceAccountEd25519, the names of the older XDR layer; line 133 then reads
\* source_account of the same object, the name of the stellarxdr layer, and
\* replaces the source by a Keypair of the ed25519 key alone.  Lines 136-145
\* read the sequence number, the fee, the time bounds, the memo and the
\* operations, each decoded by Operation.from_xdr_object; the extension is
\* not read.  Lines 146-154 construct the transaction.
Transaction_from_xdr_object(tx_xdr_object, v1) ==
    LET first == IF v1 THEN getattr(tx_xdr_object, "sourceAccount")
                 ELSE getattr(tx_xdr_object, "sourceAccountEd25519")
        source_account == getattr(tx_xdr_object, "source_account")
    IN  IF ~Returned(first) THEN first
        ELSE IF ~Returned(source_account) THEN source_account
        ELSE LET source == [ kind |-> "Keypair",
                             keypair |-> [public_key |-> source_account.value[1].ed25519] ]
                 sequence == tx_xdr_object.seq_num.sequence_number.int64
                 fee == tx_xdr_object.fee.uint32
                 time_bounds_xdr == tx_xdr_object.time_bounds
                 time_bounds == IF time_bounds_xdr = None THEN None
                                ELSE Some(TimeBounds_from_xdr_object(time_bounds_xdr[1]))
                 memo == Memo_from_xdr_object(tx_xdr_object.memo)
                 operations == [i \in 1..Len(tx_xdr_object.operations) |->
                                   Operation_from_xdr_object(tx_xdr_object.operations[i])]
             IN  FirstRaise(operations,
                            Return(Transaction_init(
                                       source, sequence, fee,
                                       [i \in 1..Len(operations) |-> operations[i].value[1]],
                                       Some(memo), time_bounds, v1)))

(***************************************************************************)
(* transaction_envelope.py: class TransactionEnvelope.  An envelope is     *)
(* the record of its fields; a method yields the outcome of the call and   *)
(* the envelope as the call leaves it.                                     *)
(***************************************************************************)
\* TransactionEnvelope.__init__ (lines 33-40): the base class derives the
\* network id from the passphrase and keeps the signature list, empty when
\* none is given.
TransactionEnvelope_init(transaction, network_passphrase, signatures) ==
    [ transaction |-> transaction,
      network_id |-> network_id_of(network_passphrase),
      signatures |-> IF signatures = None THEN <<>> ELSE signatures[1] ]

\* signature_base with the v0 upgrade done on the stored transaction itself
\* (tx = self.transaction; tx.v1 = True) instead of on a copy.
signature_base_in_place(self) ==
    [out |-> NameError("Xdr"), self |-> [self EXCEPT !.transaction.v1 = TRUE]]

\* TransactionEnvelope.signature_base (lines 42-66).  Line 55 reads the
\* network id; line 56 reads the name Xdr, which the module (imports at
\* lines 1-12) does not bind: NameError.  Lines 57-66 do not run.
signature_base(self) ==
    [out |-> NameError("Xdr"), self |-> self]

\* TransactionEnvelope.to_xdr_object (lines 68-81).  Line 73 encodes the
\* transaction and passes on what that raises; were it to return, lines 75
\* and 79 read the name Xdr: NameError on either branch.
TransactionEnvelope_to_xdr_object(self) ==
    LET tx == Transaction_to_xdr_object(self.transaction)
    IN  [ out |-> IF ~Returned(tx) THEN tx
                  ELSE NameError("Xdr"),
          self |-> self ]

\* TransactionEnvelope.to_xdr (lines 83-89): the base64 text of the XDR
\* object.
base64(data) == <<"base64", data>>
pack(xdr_object) == <<"xdr", xdr_object>>

to_xdr(self) ==
    LET te == TransactionEnvelope_to_xdr_object(self)
    IN  [ out |-> IF Returned(te.out) THEN Return(base64(pack(te.out.value[1])))
                  ELSE te.out,
          self |-> te.self ]

\* TransactionEnvelope.from_xdr_object (lines 91-112), a class method.  Line
\* 102 reads the discriminant; line 103 reads the name Xdr: NameError,
\* whatever the discriminant.
TransactionEnvelope_from_xdr_object(te_xdr_object, network_passphrase) ==
    LET te_type == te_xdr_object.type
    IN  NameError("Xdr")

\* TransactionEnvelope.from_xdr (lines 114-127): decodes the base64 text,
\* unpacks the XDR envelope and hands it to from_xdr_object.
from_xdr(xdr, network_passphrase) ==
    LET data == xdr[2]
        xdr_obj == data[2]
    IN  TransactionEnvelope_from_xdr_object(xdr_obj, network_passphrase)

\* TransactionEnvelope.__eq__ (lines 129-136) over Transaction.__eq__
\* (transaction.py lines 184-194): the version flag is not compared.
Transaction_eq(self, other) ==
    /\ self.source = other.source
    /\ self.sequence = other.sequence
    /\ self.fee = other.fee
    /\ self.operations = other.operations
    /\ self.memo = other.memo
    /\ self.time_bounds = other.time_bounds

TransactionEnvelope_eq(self, other) ==
    /\ Transaction_eq(self.transaction, other.transaction)
    /\ self.network_id = other.network_id
    /\ self.signatures = other.signatures

(***************************************************************************)
(* BaseTransactionEnvelope (base_transaction_envelope.py is not part of    *)
(* the sources at hand): hash and sign as the specification gives them.    *)
(***************************************************************************)
\* hash(): the SHA-256 of the signature base.
hash(self) ==
    LET base == signature_base(self).out
    IN  IF Returned(base) THEN Return(sha256(base.value[1])) ELSE base

HasHint(signatures, hint) ==
    \E i \in 1..Len(signatures) : signatures[i].hint = hint

\* sign(signer): hashes the signature base, then appends the decorated
\* signature unless the list holds one with the signer's hint already.
sign(self, signer) ==
    LET tx_hash == hash(self)
    IN  IF ~Returned(tx_hash) THEN [out |-> tx_hash, self |-> self]
        ELSE IF HasHint(self.signatures, signature_hint(signer))
        THEN [out |-> Raise("SignatureExistError", "The keypair has already signed."), self |-> self]
        ELSE [ out |-> Return(None),
               self |-> [self EXCEPT !.signatures =
                           Append(@, sign_decorated(signer, tx_hash.value[1]))] ]

\* sign(signer) as a thread runs it, one statement at a time: th.pc names the
\* statement the thread is at.  It hashes the signature base, then looks for
\* the signer's hint in the list, then appends; no lock is held in between.
sign_step(self, th) ==
    CASE th.pc = "hash" ->
            LET tx_hash == hash(self)
            IN  IF ~Returned(tx_hash)
                THEN [th |-> [th EXCEPT !.pc = "done", !.out = tx_hash], self |-> self]
                ELSE [th |-> [th EXCEPT !.pc = "check", !.tx_hash = tx_hash.value], self |-> self]
      [] th.pc = "check" ->
            IF HasHint(self.signatures, signature_hint(th.signer[1]))
            THEN [ th |-> [th EXCEPT !.pc = "done",
                              !.out = Raise("SignatureExistError", "The keypair has already signed.")],
                   self |-> self ]
            ELSE [th |-> [th EXCEPT !.pc = "append"], self |-> self]
      [] th.pc = "append" ->
            [ th |-> [th EXCEPT !.pc = "done", !.out = Return(None)],
              self |-> [self EXCEPT !.signatures =
                          Append(@, sign_decorated(th.signer[1], th.tx_hash[1]))] ]

(***************************************************************************)
(* server.py: class Server, the submission of a transaction and the        *)
(* memo-required check that precedes it.                                   *)
(***************************************************************************)
\* parse_transaction_envelope_from_xdr (helpers.py): the envelope that the
\* base64 text describes.
parse_transaction_envelope_from_xdr(xdr, network_passphrase) ==
    Return(xdr[2][2])

\* FeeBumpTransactionEnvelope.to_xdr (fee_bump_transaction_envelope.py).
FeeBumpTransactionEnvelope_to_xdr(self) == Return(base64(pack(self)))

\* Server.__get_xdr_and_transaction_from_transaction_envelope (lines
\* 167-181): an envelope object is encoded with its to_xdr(), a text is
\* decoded for its transaction.
get_xdr_and_transaction_from_transaction_envelope(transaction_envelope) ==
    IF transaction_envelope.class \in {"TransactionEnvelope", "FeeBumpTransactionEnvelope"}
    THEN LET xdr == IF transaction_envelope.class = "TransactionEnvelope"
                    THEN to_xdr(transaction_envelope.envelope).out
                    ELSE FeeBumpTransactionEnvelope_to_xdr(transaction_envelope.envelope)
         IN  IF ~Returned(xdr) THEN xdr
             ELSE Return(<<xdr.value[1], transaction_envelope.envelope.transaction>>)
    ELSE LET envelope == parse_transaction_envelope_from_xdr(transaction_envelope.xdr, "")
         IN  IF ~Returned(envelope) THEN envelope
             ELSE Return(<<transaction_envelope.xdr, envelope.value[1].transaction>>)

\* utils.MUXED_ACCOUNT_STARTING_LETTER.
MUXED_ACCOUNT_STARTING_LETTER == "M"

\* The type codes of lines 467-472.
memo_required_operation_code ==
    {"PAYMENT", "ACCOUNT_MERGE", "PATH_PAYMENT_STRICT_RECEIVE", "PATH_PAYMENT_STRICT_SEND"}

\* The loop of lines 473-481 from the operation at position index on, with
\* the destinations yielded before it; index counts from 0 as enumerate does.
RECURSIVE memo_required_destinations_from(_, _, _)
memo_required_destinations_from(operations, index, destinations) ==
    IF index >= Len(operations) THEN <<>>
    ELSE LET operation == operations[index + 1]
             destination == MuxedAccount_from_account(operation.destination).account_id
         IN  IF operation.type_code \notin memo_required_operation_code
             THEN memo_required_destinations_from(operations, index + 1, destinations)
             ELSE IF destination \in destinations
             THEN memo_required_destinations_from(operations, index + 1, destinations)
             ELSE <<<<index, destination>>>>
                  \o memo_required_destinations_from(operations, index + 1,
                                                     destinations \cup {destination})

\* The generator without the test of the type code and without the set of
\* the destinations yielded: every operation yields its destination.
get_check_memo_required_destinations_of_every_operation(transaction) ==
    [i \in 1..Len(transaction.operations) |->
        <<i - 1, MuxedAccount_from_account(transaction.operations[i].destination).account_id>>]

\* Server.__get_check_memo_required_destinations (lines 463-481): the pairs
\* (index, destination) the generator yields, in order.
get_check_memo_required_destinations(transaction) ==
    memo_required_destinations_from(transaction.operations, 0, {})

\* dict.get(key): None for a key the dict does not hold.
dict_get(dict, key) == IF key \in DOMAIN dict THEN Some(dict[key]) ELSE None

\* __check_destination_memo that accepts every account.
check_destination_memo_accepts_all(account_resp, index, destination) == Return(None)

\* Server.__check_destination_memo (lines 450-461).
check_destination_memo(account_resp, index, destination) ==
    LET data == account_resp.data
    IN  IF dict_get(data, "config.memo_required") = Some("MQ==")
        THEN Raise("AccountRequiresMemoError", <<destination, index>>)
        ELSE Return(None)

\* The transaction whose memo and operations the check looks at (lines
\* 417-418): the inner transaction of a fee bump transaction.
checked_transaction(transaction) ==
    IF "inner_transaction_envelope" \in DOMAIN transaction
    THEN transaction.inner_transaction_envelope.transaction
    ELSE transaction

\* Lines 419-420: the check returns at once for a memo that is not absent.
memo_is_absent(transaction) ==
    "memo_type" \notin DOMAIN transaction.memo \/ transaction.memo.memo_type = "MEMO_NONE"

\* raise_request_exception(resp): the typed error of the HTTP status, nothing
\* for 200.
raise_request_exception(resp) ==
    IF resp.status_code = 200 THEN Return(None)
    ELSE IF resp.status_code = 400 THEN Raise("BadRequestError", "")
    ELSE IF resp.status_code = 404 THEN Raise("NotFoundError", "")
    ELSE IF resp.status_code >= 500 /\ resp.status_code < 600 THEN Raise("BadResponseError", "")
    ELSE Raise("UnknownRequestError", "")

\* RequestsClient(), a synchronous client.
RequestsClient == [class |-> "BaseSyncClient", truth |-> TRUE]

\* Server.__init__ (lines 80-100): the client and the path of every request.
Server_init(client_arg) ==
    LET client == IF ~client_arg.truth THEN RequestsClient ELSE client_arg
    IN  IF client.class = "BaseAsyncClient" THEN Return([client |-> client, async |-> TRUE])
        ELSE IF client.class = "BaseSyncClient" THEN Return([client |-> client, async |-> FALSE])
        ELSE Raise("TypeError", "This client class should be an instance of BaseAsyncClient or BaseSyncClient.")

\* Lines 417-420 and 433-436: what the memo-required check has to look at,
\* nothing for a transaction whose memo is not absent.
memo_required_pending(transaction) ==
    LET tx == checked_transaction(transaction)
    IN  IF ~memo_is_absent(tx) THEN <<>> ELSE get_check_memo_required_destinations(tx)

\* __submit_transaction_sync up to its first request (lines 131-141 with
\* 416-420): the XDR text and the transaction of the envelope, then the start
\* of the check unless it is skipped.
submit_transaction_sync(s, transaction_envelope, skip_memo_required_check) ==
    LET xdr_tx == get_xdr_and_transaction_from_transaction_envelope(transaction_envelope)
        started == [s EXCEPT !.args = <<transaction_envelope, skip_memo_required_check>>]
    IN  IF ~Returned(xdr_tx)
        THEN [started EXCEPT !.pc = "done", !.outcome = xdr_tx]
        ELSE LET pending == IF ~skip_memo_required_check
                            THEN memo_required_pending(xdr_tx.value[1][2])
                            ELSE <<>>
             IN  [started EXCEPT !.xdr = xdr_tx.value[1][1],
                                 !.pending = pending,
                                 !.checked = pending,
                                 !.pc = IF pending = <<>> THEN "post" ELSE "check"]

\* __submit_transaction_async up to its first await (lines 149-159 with
\* 432-436), run by whoever awaits the coroutine.
submit_transaction_async(s, transaction_envelope, skip_memo_required_check) ==
    LET xdr_tx == get_xdr_and_transaction_from_transaction_envelope(transaction_envelope)
        started == [s EXCEPT !.args = <<transaction_envelope, skip_memo_required_check>>]
    IN  IF ~Returned(xdr_tx)
        THEN [started EXCEPT !.pc = "done", !.outcome = xdr_tx]
        ELSE LET pending == IF ~skip_memo_required_check
                            THEN memo_required_pending(xdr_tx.value[1][2])
                            ELSE <<>>
             IN  [started EXCEPT !.xdr = xdr_tx.value[1][1],
                                 !.pending = pending,
                                 !.checked = pending,
                                 !.pc = IF pending = <<>> THEN "post" ELSE "check"]

\* Server.submit_transaction (lines 102-129): the path the constructor chose.
submit_transaction(s, transaction_envelope, skip_memo_required_check) ==
    IF s.async
    THEN submit_transaction_async(s, transaction_envelope, skip_memo_required_check)
    ELSE submit_transaction_sync(s, transaction_envelope, skip_memo_required_check)

\* The check goes on with what is left after the destination at hand.
NextDestination(s) ==
    [s EXCEPT !.pending = Tail(@), !.pc = IF Tail(s.pending) = <<>> THEN "post" ELSE "check"]

\* Lines 424-425 and 442-443: the destination at hand starts with the letter
\* of muxed accounts, and the loop goes on without a request.
starts_with_muxed_letter(s) ==
    s.pending[1][2].prefix = MUXED_ACCOUNT_STARTING_LETTER

\* One round of the loop of __check_memo_required_sync (lines 421-430): a
\* destination that starts with the letter of muxed accounts is passed over;
\* of any other the account is looked up, with account_resp as the outcome:
\* NotFoundError passes it over, any other error ends the call, and
\* __check_destination_memo ends the call for an account that requires a memo.
check_memo_required_sync(s, account_resp) ==
    LET index == s.pending[1][1]
        destination == s.pending[1][2]
        looked == [s EXCEPT !.lookups = Append(@, [ index |-> index, destination |-> destination,
                                                    resp |-> account_resp ])]
    IN  IF starts_with_muxed_letter(s) THEN NextDestination(s)
        ELSE IF Returned(account_resp)
        THEN LET checked == check_destination_memo(account_resp.value[1].raw_data,
                                                   index, destination)
             IN  IF Returned(checked) THEN NextDestination(looked)
                 ELSE [looked EXCEPT !.pc = "done", !.outcome = checked]
        ELSE IF IsSubclass(account_resp.exc, "NotFoundError") THEN NextDestination(looked)
        ELSE [looked EXCEPT !.pc = "done", !.outcome = account_resp]

\* One round of the loop of __check_memo_required_async (lines 439-448),
\* with account_resp as the outcome of the awaited call.
check_memo_required_async(s, account_resp) ==
    LET index == s.pending[1][1]
        destination == s.pending[1][2]
        looked == [s EXCEPT !.lookups = Append(@, [ index |-> index, destination |-> destination,
                                                    resp |-> account_resp ])]
    IN  IF starts_with_muxed_letter(s) THEN NextDestination(s)
        ELSE IF Returned(account_resp)
        THEN LET checked == check_destination_memo(account_resp.value[1].raw_data,
                                                   index, destination)
             IN  IF Returned(checked) THEN NextDestination(looked)
                 ELSE [looked EXCEPT !.pc = "done", !.outcome = checked]
        ELSE IF IsSubclass(account_resp.exc, "NotFoundError") THEN NextDestination(looked)
        ELSE [looked EXCEPT !.pc = "done", !.outcome = account_resp]

\* Lines 142-147: the POST of the XDR text, with resp as its outcome: the
\* error of its status if it has one, the wrapped response otherwise.
post_transaction_sync(s, resp) ==
    LET posted == [s EXCEPT !.posts = Append(@, [tx |-> s.xdr, resp |-> resp]), !.pc = "done"]
    IN  IF ~Returned(resp) THEN [posted EXCEPT !.outcome = resp]
        ELSE LET raised == raise_request_exception(resp.value[1])
             IN  IF ~Returned(raised) THEN [posted EXCEPT !.outcome = raised]
                 ELSE [posted EXCEPT !.outcome = Return([raw_response |-> resp.value[1]])]

\* Lines 160-165: the same after the awaited POST.
post_transaction_async(s, resp) ==
    LET posted == [s EXCEPT !.posts = Append(@, [tx |-> s.xdr, resp |-> resp]), !.pc = "done"]
    IN  IF ~Returned(resp) THEN [posted EXCEPT !.outcome = resp]
        ELSE LET raised == raise_request_exception(resp.value[1])
             IN  IF ~Returned(raised) THEN [posted EXCEPT !.outcome = raised]
                 ELSE [posted EXCEPT !.outcome = Return([raw_response |-> resp.value[1]])]

(***************************************************************************)
(* The state: one envelope, and the calls made on it so far.               *)
(***************************************************************************)
VARIABLES
    transaction,    \* TransactionEnvelope.transaction
    signatures,     \* TransactionEnvelope.signatures
    network_id,     \* TransactionEnvelope.network_id
    calls,          \* the calls made: operation, argument, outcome, envelope before and after
    value,          \* the argument of an amount conversion
    amount,         \* the outcome of the conversion of value
    back,           \* the outcome of converting amount back
    codec_in,       \* the call of an operation or transaction codec method and its arguments
    codec_out,      \* the outcome of that call
    codec_back,     \* the outcome of reading the source of the XDR operation codec_out holds
    server,         \* a submit_transaction call: its position, what is left to check, the requests made, its outcome
    threads         \* the threads that call sign on the envelope: where each is, and the order of their steps

vars == <<transaction, signatures, network_id, calls, value, amount, back,
          codec_in, codec_out, codec_back, server, threads>>

envelope_vars == <<transaction, signatures, network_id, calls, threads>>
amount_vars == <<value, amount, back>>
codec_vars == <<codec_in, codec_out, codec_back>>

\* The envelope the state holds.
Self == [transaction |-> transaction, network_id |-> network_id, signatures |-> signatures]

(***************************************************************************)
(* The arguments the constructors are given.                               *)
(***************************************************************************)
SourceArgs ==
    { [kind |-> "Keypair", keypair |-> [public_key |-> <<"A", "h1">>]],
      [kind |-> "str", account |-> MAddress(<<"B", "h1">>, 7)],
      [kind |-> "MuxedAccount", muxed |-> MuxedAccount(GAddress(<<"A", "h2">>), None)] }

OperationLists ==
    { <<Operation_init("PAYMENT", None, GAddress(<<"B", "h1">>))>>,
      <<Operation_init("CREATE_ACCOUNT", None, GAddress(<<"B", "h1">>)),
        Operation_init("PAYMENT", Some(GAddress(<<"A", "h2">>)), GAddress(<<"A", "h1">>))>> }

MemoArgs == {None, Some(TextMemo("hello"))}

TimeBoundsArgs == {None, Some([min_time |-> 0, max_time |-> 10])}

Transactions ==
    { Transaction_init(source, 100, 100, operations, memo, time_bounds, v1) :
        source \in SourceArgs, operations \in OperationLists, memo \in MemoArgs,
        time_bounds \in TimeBoundsArgs, v1 \in BOOLEAN }

\* Signature lists a caller hands to the constructor: signatures made
\* elsewhere over the hash of the transaction.
SignatureArgs ==
    { None,
      Some(<<sign_decorated([public_key |-> <<"A", "h1">>], "tx_hash")>>) }

\* XDR envelopes handed to from_xdr_object: the discriminant and the arm.
EnvelopeTypes == {"ENVELOPE_TYPE_TX_V0", "ENVELOPE_TYPE_TX", "ENVELOPE_TYPE_TX_FEE_BUMP"}

XdrEnvelopes ==
    { [ type |-> t,
        arm |-> [tx |-> "tx", signatures |-> sigs] ] :
        t \in EnvelopeTypes,
        sigs \in { <<>>, <<sign_decorated([public_key |-> <<"B", "h1">>], "tx_hash")>> } }

(***************************************************************************)
(* Init: the state after TransactionEnvelope(transaction, passphrase,      *)
(* signatures).  No amount conversion is under way.                        *)
(***************************************************************************)
NoValue == [type |-> "none", chars |-> <<>>]
NoOutcome == [kind |-> "none", exc |-> "", detail |-> "", value |-> <<>>]

AmountIdle ==
    /\ value = NoValue
    /\ amount = NoOutcome
    /\ back = NoOutcome

NoCall == [call |-> "none", args |-> <<>>]

CodecIdle ==
    /\ codec_in = NoCall
    /\ codec_out = NoOutcome
    /\ codec_back = NoOutcome

\* No submit_transaction call has been made.
NoSubmission ==
    [ client_arg |-> [class |-> "NoneType", truth |-> FALSE],
      client |-> [class |-> "BaseSyncClient", truth |-> TRUE], async |-> FALSE,
      pc |-> "idle", args |-> <<>>, xdr |-> <<>>, pending |-> <<>>, checked |-> <<>>,
      lookups |-> <<>>, posts |-> <<>>, outcome |-> NoOutcome ]

ServerIdle == server = NoSubmission

\* The threads that share the envelope, none of which has called sign.
Threads == {"t1", "t2"}

NoThread == [pc |-> "idle", signer |-> <<>>, tx_hash |-> <<>>, out |-> NoOutcome]

NoThreads == [of |-> [t \in Threads |-> NoThread], steps |-> <<>>]

Init ==
    /\ \E t \in Transactions, p \in Passphrases, s \in SignatureArgs :
          LET te == TransactionEnvelope_init(t, p, s)
          IN  /\ transaction = te.transaction
              /\ signatures = te.signatures
              /\ network_id = te.network_id
    /\ calls = <<>>
    /\ threads = NoThreads
    /\ AmountIdle
    /\ CodecIdle
    /\ ServerIdle

\* The call op(arg) on the envelope, which r = [out, self] describes.
Call(op, arg, r) ==
    /\ Len(calls) < MaxCalls
    /\ transaction' = r.self.transaction
    /\ signatures' = r.self.signatures
    /\ network_id' = r.self.network_id
    /\ calls' = Append(calls, [op |-> op, arg |-> arg, out |-> r.out,
                               pre |-> Self, post |-> r.self])
    /\ UNCHANGED threads
    /\ UNCHANGED amount_vars
    /\ UNCHANGED codec_vars
    /\ UNCHANGED server

Sign ==
    \E signer \in Keypairs : Call("sign", <<signer>>, sign(Self, signer))

SignatureBase ==
    Call("signature_base", <<>>, signature_base(Self))

ToXdrObject ==
    Call("to_xdr_object", <<>>, TransactionEnvelope_to_xdr_object(Self))

ToXdr ==
    Call("to_xdr", <<>>, to_xdr(Self))

\* The class methods build a new envelope and leave this one alone.
FromXdrObject ==
    \E te_xdr_object \in XdrEnvelopes, p \in {"Test SDF Network ; September 2015"} :
        Call("from_xdr_object", <<te_xdr_object, p>>,
             [out |-> TransactionEnvelope_from_xdr_object(te_xdr_object, p), self |-> Self])

FromXdr ==
    \E te_xdr_object \in {x \in XdrEnvelopes : x.arm.signatures = <<>>},
       p \in {"Public Global Stellar Network ; September 2015"} :
        Call("from_xdr", <<base64(pack(te_xdr_object)), p>>,
             [out |-> from_xdr(base64(pack(te_xdr_object)), p), self |-> Self])

Next ==
    \/ Sign
    \/ SignatureBase
    \/ ToXdrObject
    \/ ToXdr
    \/ FromXdrObject
    \/ FromXdr

Spec == Init /\ [][Next]_vars

(***************************************************************************)
(* Two threads that call sign on one envelope, with no lock around the     *)
(* calls: the steps of the two calls interleave in any order.              *)
(***************************************************************************)
ThreadsInit ==
    /\ \E t \in Transactions, p \in Passphrases, s \in SignatureArgs :
          LET te == TransactionEnvelope_init(t, p, s)
          IN  /\ transaction = te.transaction
              /\ signatures = te.signatures
              /\ network_id = te.network_id
    /\ calls = <<>>
    /\ threads = NoThreads
    /\ AmountIdle
    /\ CodecIdle
    /\ ServerIdle

\* Thread t calls sign(signer).
SignCall(t) ==
    /\ threads.of[t].pc = "idle"
    /\ \E signer \in Keypairs :
          threads' = [threads EXCEPT !.of[t].pc = "hash", !.of[t].signer = <<signer>>,
                                     !.steps = Append(@, <<t, "call">>)]
    /\ UNCHANGED <<transaction, signatures, network_id, calls>>
    /\ UNCHANGED amount_vars
    /\ UNCHANGED codec_vars
    /\ UNCHANGED server

\* Thread t runs the statement of sign it is at.
SignStep(t) ==
    /\ threads.of[t].pc \in {"hash", "check", "append"}
    /\ LET r == sign_step(Self, threads.of[t])
       IN  /\ threads' = [threads EXCEPT !.of[t] = r.th,
                                         !.steps = Append(@, <<t, threads.of[t].pc>>)]
           /\ transaction' = r.self.transaction
           /\ signatures' = r.self.signatures
           /\ network_id' = r.self.network_id
    /\ UNCHANGED calls
    /\ UNCHANGED amount_vars
    /\ UNCHANGED codec_vars
    /\ UNCHANGED server

ThreadsNext ==
    \/ \E t \in Threads : SignCall(t)
    \/ \E t \in Threads : SignStep(t)

ThreadsSpec == ThreadsInit /\ [][ThreadsNext]_vars

(***************************************************************************)
(* The amount conversions, applied to the texts of a bounded set: first    *)
(* to_xdr_amount(value), then from_xdr_amount of what it returned.         *)
(***************************************************************************)
SeqsUpTo(S, n) == UNION {[1..k -> S] : k \in 0..n}

AmountTexts ==
    { sgn \o intpart \o fraction :
        sgn \in {<<>>, <<"-">>},
        intpart \in SeqsUpTo({"0", "1", "9"}, MaxIntDigits),
        fraction \in {<<>>} \cup {<<".">> \o f : f \in SeqsUpTo({"0", "1"}, MaxFracDigits)} }

\* The largest amount and its successor.
BoundaryTexts ==
    { <<"9","2","2","3","3","7","2","0","3","6","8","5",".","4","7","7","5","8","0","7">>,
      <<"9","2","2","3","3","7","2","0","3","6","8","5",".","4","7","7","5","8","0","8">> }

\* Texts of Prec and of Prec + 1 significant digits, on either side of the
\* precision of the default context.
LongTexts ==
    { <<"1", ".">> \o CharsOf(Zeros(Prec - 2)) \o <<"1">>,
      <<"1", ".">> \o CharsOf(Zeros(Prec - 1)) \o <<"1">>,
      <<"1", ".", "0", "0", "0", "0", "0", "0", "1">>
          \o CharsOf(Zeros(Prec - 8)) \o <<"5">>,
      <<"1", ".", "0", "0", "0", "0", "0", "0", "1">>
          \o CharsOf(Zeros(Prec - 8)) \o <<"6">>,
      <<"9","2","2","3","3","7","2","0","3","6","8","5",".","4","7","7","5","8","0","7">>
          \o CharsOf(Zeros(Prec - 19)) \o <<"1">> }

AmountValues == {PyStr(chars) : chars \in AmountTexts \cup BoundaryTexts \cup LongTexts}

DefaultEnvelope ==
    TransactionEnvelope_init(
        Transaction_init([kind |-> "Keypair", keypair |-> [public_key |-> <<"A", "h1">>]],
                         100, 100, <<>>, None, None, FALSE),
        "Test SDF Network ; September 2015", None)

AmountInit ==
    /\ transaction = DefaultEnvelope.transaction
    /\ signatures = DefaultEnvelope.signatures
    /\ network_id = DefaultEnvelope.network_id
    /\ calls = <<>>
    /\ threads = NoThreads
    /\ value \in AmountValues
    /\ amount = NoOutcome
    /\ back = NoOutcome
    /\ CodecIdle
    /\ ServerIdle

ToXdrAmount ==
    /\ value # NoValue
    /\ amount = NoOutcome
    /\ amount' = to_xdr_amount(value)
    /\ UNCHANGED <<value, back>>
    /\ UNCHANGED envelope_vars
    /\ UNCHANGED codec_vars
    /\ UNCHANGED server

FromXdrAmount ==
    /\ Returned(amount)
    /\ back = NoOutcome
    /\ back' = from_xdr_amount(amount.value[1])
    /\ UNCHANGED <<value, amount>>
    /\ UNCHANGED envelope_vars
    /\ UNCHANGED codec_vars
    /\ UNCHANGED server

AmountNext ==
    \/ ToXdrAmount
    \/ FromXdrAmount

AmountSpec == AmountInit /\ [][AmountNext]_vars

(***************************************************************************)
(* to_xdr_amount applied to arguments of every type a caller may pass:     *)
(* Decimal and str, which line 79 lets through, and int, float, bool,      *)
(* bytes and None, which it does not.                                      *)
(***************************************************************************)
PyDecimal(d) == [type |-> "Decimal", decimal |-> d]
PyFloat(repr) == [type |-> "float", repr |-> repr]
PyBool(b) == [type |-> "bool", bool |-> b]
PyBytes(chars) == [type |-> "bytes", chars |-> chars]
PyNone == [type |-> "NoneType"]

IntArgs ==
    { PyInt(neg, digits) :
        neg \in BOOLEAN,
        digits \in {d \in SeqsUpTo({0, 1, 9}, MaxIntDigits) : d # <<>> /\ (d[1] = 0 => d = <<0>>)} }
        \cup {PyInt(FALSE, MaxInt64), PyInt(FALSE, Increment(MaxInt64))}

DecimalArgs ==
    { PyDecimal(Decimal_from_str(chars).value[1]) :
        chars \in {c \in AmountTexts \cup BoundaryTexts : Returned(Decimal_from_str(c))} }

OtherArgs ==
    { PyFloat(repr) : repr \in {"1.0", "0.1", "1e-08", "nan", "inf"} }
        \cup { PyBool(b) : b \in BOOLEAN }
        \cup { PyBytes(chars) : chars \in {<<"1">>, <<"1", ".", "5">>} }
        \cup { PyNone }

ArgumentValues ==
    IntArgs \cup DecimalArgs \cup OtherArgs
        \cup { PyStr(chars) : chars \in {<<"1">>, <<"1", ".", "5">>, <<"x">>} }

ArgumentInit ==
    /\ transaction = DefaultEnvelope.transaction
    /\ signatures = DefaultEnvelope.signatures
    /\ network_id = DefaultEnvelope.network_id
    /\ calls = <<>>
    /\ threads = NoThreads
    /\ value \in ArgumentValues
    /\ amount = NoOutcome
    /\ back = NoOutcome
    /\ CodecIdle
    /\ ServerIdle

ArgumentSpec == ArgumentInit /\ [][AmountNext]_vars

(***************************************************************************)
(* The codec methods of Operation and Transaction, each applied to the     *)
(* arguments of a bounded set.                                             *)
(***************************************************************************)
Operations ==
    { Operation_init(type_code, source, GAddress(<<"B", "h1">>)) :
        type_code \in {"PAYMENT", "MANAGE_DATA"},
        source \in {None, Some(GAddress(<<"A", "h2">>)), Some(MAddress(<<"B", "h1">>, 7))} }

\* XDR MuxedAccount values: a plain ed25519 key, and a key with a sub-id.
XdrMuxedAccounts ==
    { [type |-> "KEY_TYPE_ED25519", ed25519 |-> <<"A", "h2">>, id |-> None],
      [type |-> "KEY_TYPE_MUXED_ED25519", ed25519 |-> <<"B", "h1">>, id |-> Some(7)] }

\* The discriminants of XDR operation bodies; the last is the code of no
\* variant.
XdrOperationTypes ==
    {"CREATE_ACCOUNT", "PAYMENT", "ACCOUNT_MERGE", "PATH_PAYMENT_STRICT_SEND",
     "BEGIN_SPONSORING_FUTURE_RESERVES"}

XdrOperationBodies == {[type |-> t, destination |-> GAddress(<<"B", "h1">>)] : t \in XdrOperationTypes}

\* XDR operations of the two XDR layers the code reads: the older one names
\* the attribute sourceAccount (a list of at most one account), the
\* generated one source_account (an account or None).
XdrOperations ==
    { [sourceAccount |-> source, body |-> body] :
        source \in {<<>>} \cup {<<m>> : m \in XdrMuxedAccounts}, body \in XdrOperationBodies }
    \cup { stellarxdr_Operation(source, body) :
        source \in {None} \cup {Some(m) : m \in XdrMuxedAccounts}, body \in XdrOperationBodies }

\* XDR transactions of the two XDR layers and of the two versions, with the
\* recognised extension 0 and with an extension that is not.
XdrTransactions ==
    { [ sourceAccount |-> m, fee |-> PyInt(FALSE, <<1, 0, 0>>), seqNum |-> PyInt(FALSE, <<1, 0, 0>>), timeBounds |-> tb,
        memo |-> [type |-> "MEMO_NONE"], operations |-> <<>>, ext |-> ext ] :
        m \in XdrMuxedAccounts, tb \in {<<>>, <<[minTime |-> 0, maxTime |-> 10]>>}, ext \in {0, 1} }
    \cup { [ sourceAccountEd25519 |-> <<"A", "h1">>, fee |-> PyInt(FALSE, <<1, 0, 0>>), seqNum |-> PyInt(FALSE, <<1, 0, 0>>), timeBounds |-> tb,
        memo |-> [type |-> "MEMO_NONE"], operations |-> <<>>, ext |-> ext ] :
        tb \in {<<>>, <<[minTime |-> 0, maxTime |-> 10]>>}, ext \in {0, 1} }
    \cup { [ source_account |-> m, fee |-> [uint32 |-> 100],
          seq_num |-> [sequence_number |-> [int64 |-> 100]], time_bounds |-> tb,
          memo |-> [type |-> "MEMO_NONE"],
          operations |-> <<stellarxdr_Operation(None, [type |-> "PAYMENT", destination |-> GAddress(<<"B", "h1">>)])>>,
          ext |-> ext ] :
        m \in XdrMuxedAccounts, tb \in {None, Some([min_time |-> 0, max_time |-> 10])}, ext \in {0, 1} }
    \cup { [ source_account_ed25519 |-> <<"A", "h1">>, fee |-> [uint32 |-> 100],
          seq_num |-> [sequence_number |-> [int64 |-> 100]], time_bounds |-> tb,
          memo |-> [type |-> "MEMO_NONE"], operations |-> <<>>, ext |-> ext ] :
        tb \in {None, Some([min_time |-> 0, max_time |-> 10])}, ext \in {0, 1} }

CodecCalls ==
    { [call |-> "Operation.to_xdr_object", args |-> <<operation>>] : operation \in Operations }
    \cup { [call |-> "Operation.from_xdr_object", args |-> <<x>>] : x \in XdrOperations }
    \cup { [call |-> "Operation.get_source_from_xdr_obj", args |-> <<x>>] : x \in XdrOperations }
    \cup { [call |-> "Transaction.to_xdr_object", args |-> <<t>>] : t \in Transactions }
    \cup { [call |-> "Transaction.from_xdr_object", args |-> <<x, v1>>] :
              x \in XdrTransactions, v1 \in BOOLEAN }

CodecInit ==
    /\ transaction = DefaultEnvelope.transaction
    /\ signatures = DefaultEnvelope.signatures
    /\ network_id = DefaultEnvelope.network_id
    /\ calls = <<>>
    /\ threads = NoThreads
    /\ AmountIdle
    /\ ServerIdle
    /\ codec_in \in CodecCalls
    /\ codec_out = NoOutcome
    /\ codec_back = NoOutcome

\* The call codec_in names, whose outcome is out.
CodecCall(call, out) ==
    /\ codec_in.call = call
    /\ codec_out = NoOutcome
    /\ codec_out' = out
    /\ UNCHANGED <<codec_in, codec_back>>
    /\ UNCHANGED envelope_vars
    /\ UNCHANGED amount_vars
    /\ UNCHANGED server

OperationToXdrObject ==
    CodecCall("Operation.to_xdr_object", Operation_to_xdr_object(codec_in.args[1]))

OperationFromXdrObject ==
    CodecCall("Operation.from_xdr_object", Operation_from_xdr_object(codec_in.args[1]))

GetSourceFromXdrObj ==
    CodecCall("Operation.get_source_from_xdr_obj", get_source_from_xdr_obj(codec_in.args[1]))

\* get_source_from_xdr_obj of the XDR operation that to_xdr_object returned.
GetSourceOfEncoded ==
    /\ codec_in.call = "Operation.to_xdr_object"
    /\ Returned(codec_out)
    /\ codec_back = NoOutcome
    /\ codec_back' = get_source_from_xdr_obj(codec_out.value[1])
    /\ UNCHANGED <<codec_in, codec_out>>
    /\ UNCHANGED envelope_vars
    /\ UNCHANGED amount_vars
    /\ UNCHANGED server

TransactionToXdrObject ==
    CodecCall("Transaction.to_xdr_object", Transaction_to_xdr_object(codec_in.args[1]))

TransactionFromXdrObject ==
    CodecCall("Transaction.from_xdr_object",
              Transaction_from_xdr_object(codec_in.args[1], codec_in.args[2]))

CodecNext ==
    \/ OperationToXdrObject
    \/ OperationFromXdrObject
    \/ GetSourceFromXdrObj
    \/ GetSourceOfEncoded
    \/ TransactionToXdrObject
    \/ TransactionFromXdrObject

CodecSpec == CodecInit /\ [][CodecNext]_vars

(***************************************************************************)
(* Server.submit_transaction with a synchronous client, in the steps that  *)
(* the requests to the server divide it into.                              *)
(***************************************************************************)
ServerOperationLists ==
    { <<Operation_init("PAYMENT", None, GAddress(<<"B", "h1">>))>>,
      <<Operation_init("MANAGE_DATA", None, GAddress(<<"B", "h1">>))>>,
      <<Operation_init("CREATE_ACCOUNT", None, GAddress(<<"B", "h1">>)),
        Operation_init("PAYMENT", None, GAddress(<<"A", "h2">>)),
        Operation_init("PAYMENT", None, MAddress(<<"A", "h2">>, 7)),
        Operation_init("ACCOUNT_MERGE", None, GAddress(<<"B", "h1">>))>>,
      <<Operation_init("PATH_PAYMENT_STRICT_SEND", None, GAddress(<<"B", "h1">>)),
        Operation_init("PATH_PAYMENT_STRICT_RECEIVE", None, GAddress(<<"B", "h1">>)),
        Operation_init("ACCOUNT_MERGE", None, GAddress(<<"A", "h1">>))>>,
      <<Operation_init("PAYMENT", None, MAddress(<<"B", "h1">>, 7)),
        Operation_init("PAYMENT", None, GAddress(<<"A", "h2">>))>> }

ServerTransactions ==
    { Transaction_init([kind |-> "Keypair", keypair |-> [public_key |-> <<"A", "h1">>]],
                       100, 100, operations, memo, None, FALSE) :
        operations \in ServerOperationLists, memo \in MemoArgs }

ServerEnvelopes ==
    { TransactionEnvelope_init(t, "Test SDF Network ; September 2015", None) :
        t \in ServerTransactions }

\* A fee bump envelope around an envelope.
FeeBumpEnvelope(inner) ==
    [ transaction |-> [ fee_source |-> MuxedAccount(GAddress(<<"B", "h1">>), None),
                        base_fee |-> 200,
                        inner_transaction_envelope |-> inner ],
      network_id |-> inner.network_id,
      signatures |-> <<>> ]

\* What submit_transaction is given: an envelope object, a fee bump envelope
\* object, or the base64 text of either.
SubmitArgs ==
    { [class |-> "TransactionEnvelope", envelope |-> e] : e \in ServerEnvelopes }
    \cup { [class |-> "FeeBumpTransactionEnvelope", envelope |-> FeeBumpEnvelope(e)] :
              e \in ServerEnvelopes }
    \cup { [class |-> "str", xdr |-> base64(pack(e))] : e \in ServerEnvelopes }
    \cup { [class |-> "str", xdr |-> base64(pack(FeeBumpEnvelope(e)))] : e \in ServerEnvelopes }

\* What self.accounts().account_id(destination).call() ends with: the
\* account with its data entries, or an error of the request.
AccountCallOutcomes ==
    { Return([raw_data |-> [data |-> [k \in {"config.memo_required"} |-> "MQ=="]]]),
      Return([raw_data |-> [data |-> [k \in {"config.memo_required"} |-> "MA=="]]]),
      Return([raw_data |-> [data |-> [k \in {"other_entry"} |-> "MQ=="]]]),
      Raise("NotFoundError", ""),
      Raise("ConnectionError", "") }

\* What self._client.post(url, data) ends with.
PostOutcomes ==
    { Return([status_code |-> 200]), Return([status_code |-> 400]),
      Return([status_code |-> 504]), Raise("ConnectionError", "") }

\* What the caller hands to Server(horizon_url, client): nothing, a client
\* of one of the two base classes, or an object of another class, which
\* Python takes for true or for false (0, "", an empty list).
ClientArgs ==
    { [class |-> "NoneType", truth |-> FALSE],
      [class |-> "BaseSyncClient", truth |-> TRUE],
      [class |-> "BaseAsyncClient", truth |-> TRUE],
      [class |-> "object", truth |-> TRUE],
      [class |-> "int", truth |-> FALSE],
      [class |-> "str", truth |-> FALSE] }

\* A call of submit_transaction on the server, up to its first request.
SubmitTransaction ==
    /\ server.pc = "idle"
    /\ \E transaction_envelope \in SubmitArgs, skip_memo_required_check \in BOOLEAN :
          server' = submit_transaction(server, transaction_envelope, skip_memo_required_check)
    /\ UNCHANGED envelope_vars
    /\ UNCHANGED amount_vars
    /\ UNCHANGED codec_vars

\* One round of the check on the synchronous path.
CheckMemoRequired ==
    /\ server.pc = "check"
    /\ ~server.async
    /\ IF starts_with_muxed_letter(server)
       THEN server' = check_memo_required_sync(server, NoOutcome)
       ELSE \E account_resp \in AccountCallOutcomes :
               server' = check_memo_required_sync(server, account_resp)
    /\ UNCHANGED envelope_vars
    /\ UNCHANGED amount_vars
    /\ UNCHANGED codec_vars

\* One round of the check on the asynchronous path.
CheckMemoRequiredAsync ==
    /\ server.pc = "check"
    /\ server.async
    /\ IF starts_with_muxed_letter(server)
       THEN server' = check_memo_required_async(server, NoOutcome)
       ELSE \E account_resp \in AccountCallOutcomes :
               server' = check_memo_required_async(server, account_resp)
    /\ UNCHANGED envelope_vars
    /\ UNCHANGED amount_vars
    /\ UNCHANGED codec_vars

PostTransaction ==
    /\ server.pc = "post"
    /\ ~server.async
    /\ \E resp \in PostOutcomes : server' = post_transaction_sync(server, resp)
    /\ UNCHANGED envelope_vars
    /\ UNCHANGED amount_vars
    /\ UNCHANGED codec_vars

PostTransactionAsync ==
    /\ server.pc = "post"
    /\ server.async
    /\ \E resp \in PostOutcomes : server' = post_transaction_async(server, resp)
    /\ UNCHANGED envelope_vars
    /\ UNCHANGED amount_vars
    /\ UNCHANGED codec_vars

\* The state after Server(horizon_url, client): a server on the path of its
\* client, or no server when the constructor raised.
ServerInit ==
    /\ transaction = DefaultEnvelope.transaction
    /\ signatures = DefaultEnvelope.signatures
    /\ network_id = DefaultEnvelope.network_id
    /\ calls = <<>>
    /\ threads = NoThreads
    /\ AmountIdle
    /\ CodecIdle
    /\ \E client_arg \in ClientArgs :
          LET made == Server_init(client_arg)
          IN  server = IF Returned(made)
                       THEN [NoSubmission EXCEPT !.client_arg = client_arg,
                                                 !.client = made.value[1].client,
                                                 !.async = made.value[1].async]
                       ELSE [NoSubmission EXCEPT !.client_arg = client_arg,
                                                 !.pc = "no server", !.outcome = made]

ServerNext ==
    \/ SubmitTransaction
    \/ CheckMemoRequired
    \/ CheckMemoRequiredAsync
    \/ PostTransaction
    \/ PostTransactionAsync

ServerSpec == ServerInit /\ [][ServerNext]_vars

(***************************************************************************)
(* The claims.                                                             *)
(***************************************************************************)
Ops(names) == {i \in 1..Len(calls) : calls[i].op \in names}

\* The call raised an exception of class c or of one of its subclasses.
RaisedA(out, c) == out.kind = "raise" /\ IsSubclass(out.exc, c)

IsPrefix(s, t) == Len(s) <= Len(t) /\ SubSeq(t, 1, Len(s)) = s

\* C1: a second sign(k) on an envelope, with the keypair k of an earlier
\* sign(k) on it, raises SignatureExistError.
C1_SecondSignRaisesSignatureExist ==
    \A i \in Ops({"sign"}) : \A j \in Ops({"sign"}) :
        (i < j /\ calls[i].arg = calls[j].arg)
            => RaisedA(calls[j].out, "SignatureExistError")

\* The encoding of a transaction in its v1 shape: the tagged MuxedAccount
\* source, then fee, sequence number, time bounds, memo, operations and the
\* empty extension.
EncodeV1(tx) ==
    pack([ source_account |-> tx.source, fee |-> tx.fee, seq_num |-> tx.sequence,
           time_bounds |-> tx.time_bounds, memo |-> tx.memo,
           operations |-> tx.operations, ext |-> 0 ])

\* C2: signature_base() is the network id, then the ENVELOPE_TYPE_TX tag,
\* then the encoding of the transaction in its v1 shape, for v0 and v1
\* transactions alike.
C2_SignatureBaseLayout ==
    \A i \in Ops({"signature_base"}) :
        calls[i].out = Return(<<calls[i].pre.network_id, "ENVELOPE_TYPE_TX",
                                EncodeV1(calls[i].pre.transaction)>>)

\* C3: an envelope and the envelope that differs from it in the version flag
\* of its transaction alone have the same signature base.
C3_SameSignatureBaseAcrossVersions ==
    \A i \in Ops({"signature_base"}) :
        LET twin == [calls[i].pre EXCEPT !.transaction.v1 = ~@]
            other == signature_base(twin).out
        IN  /\ Returned(calls[i].out)
            /\ Returned(other)
            /\ other.value = calls[i].out.value

\* C4: the signature list only grows: a sign with a keypair whose hint the
\* list does not hold appends one DecoratedSignature (the hint, the signature
\* over the SHA-256 of the signature base) at the end, and every call keeps
\* the signatures there are, in their order.
C4_SignAppendsOneSignature ==
    /\ \A i \in Ops({"sign", "signature_base", "to_xdr_object", "to_xdr"}) :
          IsPrefix(calls[i].pre.signatures, calls[i].post.signatures)
    /\ \A i \in Ops({"sign"}) :
          ~HasHint(calls[i].pre.signatures, signature_hint(calls[i].arg[1]))
              => /\ Len(calls[i].post.signatures) = Len(calls[i].pre.signatures) + 1
                 /\ calls[i].post.signatures[Len(calls[i].post.signatures)].hint
                        = signature_hint(calls[i].arg[1])

\* C5: on an envelope constructed without signatures no two signatures ever
\* have the same hint, and a sign with a second keypair whose hint is that of
\* an earlier signer is rejected with SignatureExistError.
C5_HintsDistinctCollisionRejected ==
    (calls # <<>> /\ calls[1].pre.signatures = <<>>)
        => /\ \A m, n \in 1..Len(signatures) :
                 signatures[m].hint = signatures[n].hint => m = n
           /\ \A i \in Ops({"sign"}) : \A j \in Ops({"sign"}) :
                 ( /\ i < j
                   /\ calls[i].arg # calls[j].arg
                   /\ signature_hint(calls[i].arg[1]) = signature_hint(calls[j].arg[1]) )
                     => RaisedA(calls[j].out, "SignatureExistError")

C7_EnvelopeRoundTrip ==
    \A i \in Ops({"to_xdr"}) :
        /\ Returned(calls[i].out)
        /\ \A p \in Passphrases :
              network_id_of(p) = calls[i].pre.network_id
                  => LET decoded == from_xdr(calls[i].out.value[1], p)
                     IN  /\ Returned(decoded)
                         /\ TransactionEnvelope_eq(decoded.value[1], calls[i].pre)

\* C8: to_xdr_object() emits the v1 envelope with discriminant
\* ENVELOPE_TYPE_TX exactly when the flag v1 is true and the v0 envelope with
\* discriminant ENVELOPE_TYPE_TX_V0 exactly when it is false, either with the
\* signature list of the envelope.
C8_EnvelopeShapeFollowsVersion ==
    \A i \in Ops({"to_xdr_object"}) :
        /\ Returned(calls[i].out)
        /\ calls[i].out.value[1].type
              = (IF calls[i].pre.transaction.v1 THEN "ENVELOPE_TYPE_TX"
                 ELSE "ENVELOPE_TYPE_TX_V0")
        /\ calls[i].out.value[1].arm.signatures = calls[i].pre.signatures

\* C9: from_xdr_object dispatches on the discriminant: ENVELOPE_TYPE_TX_V0
\* gives a transaction with v1 false and the signatures of the v0 arm,
\* ENVELOPE_TYPE_TX one with v1 true and the signatures of the v1 arm, and
\* any other discriminant fails with the invalid-envelope-type ValueError.
C9_DispatchOnEnvelopeType ==
    \A i \in Ops({"from_xdr_object"}) :
        LET te_xdr_object == calls[i].arg[1]
            out == calls[i].out
        IN  IF te_xdr_object.type \in {"ENVELOPE_TYPE_TX_V0", "ENVELOPE_TYPE_TX"}
            THEN /\ Returned(out)
                 /\ out.value[1].transaction.v1 = (te_xdr_object.type = "ENVELOPE_TYPE_TX")
                 /\ out.value[1].signatures = te_xdr_object.arm.signatures
            ELSE RaisedA(out, "ValueError")

\* The parts of an amount text: the sign, the digits before the point, the
\* point, the digits after it.
TextSigned(chars) == chars # <<>> /\ chars[1] \in {"-", "+"}
TextBody(chars) == IF TextSigned(chars) THEN Tail(chars) ELSE chars
TextHasPoint(chars) == \E i \in 1..Len(chars) : chars[i] = "."
TextPoint(chars) ==
    IF TextHasPoint(chars) THEN CHOOSE i \in 1..Len(chars) :
                                   chars[i] = "." /\ \A j \in 1..(i - 1) : chars[j] # "."
    ELSE Len(chars) + 1
TextInt(chars) == SubSeq(TextBody(chars), 1, TextPoint(TextBody(chars)) - 1)
TextFrac(chars) == SubSeq(TextBody(chars), TextPoint(TextBody(chars)) + 1, Len(TextBody(chars)))

\* A decimal text (digits, or digits, a point and digits) with at most 7
\* digits after the point whose value times 10^7 lies in
\* 0..9223372036854775807.
InAmountRange(chars) ==
    /\ ~TextSigned(chars)
    /\ \A i \in 1..Len(TextInt(chars)) : TextInt(chars)[i] \in DigitChars
    /\ \A i \in 1..Len(TextFrac(chars)) : TextFrac(chars)[i] \in DigitChars
    /\ TextInt(chars) # <<>>
    /\ TextHasPoint(chars) => TextFrac(chars) # <<>>
    /\ Len(TextFrac(chars)) <= 7
    /\ ~DigitsGreater(StripLeadingZeros(DigitsOf(TextInt(chars) \o TextFrac(chars))
                                            \o Zeros(7 - Len(TextFrac(chars)))),
                      MaxInt64)

\* The text is the one way Python writes its value in plain notation: no
\* sign, an integer part without a needless leading zero, and either no point
\* or a point followed by digits the last of which is not 0.
CanonicalText(chars) ==
    /\ ~TextSigned(chars)
    /\ TextInt(chars) # <<>>
    /\ (Len(TextInt(chars)) > 1 => TextInt(chars)[1] # "0")
    /\ IF TextHasPoint(chars)
       THEN TextFrac(chars) # <<>> /\ TextFrac(chars)[Len(TextFrac(chars))] # "0"
       ELSE TRUE

\* The amount is one of 1..9, that is 0.0000001 .. 0.0000009.
TinyAmount(n) == Len(n.digits) = 1 /\ n.digits # <<0>>

DecimalText(chars) ==
    /\ \A i \in 1..Len(TextInt(chars)) : TextInt(chars)[i] \in DigitChars
    /\ \A i \in 1..Len(TextFrac(chars)) : TextFrac(chars)[i] \in DigitChars
    /\ TextInt(chars) \o TextFrac(chars) # <<>>

\* The digits of the text from its first digit that is not 0.
SignificantDigits(chars) == StripLeadingZeros(DigitsOf(TextInt(chars) \o TextFrac(chars)))

TextIsZero(chars) == SignificantDigits(chars) = <<0>>
TextIsNegative(chars) == chars[1] = "-" /\ ~TextIsZero(chars)

\* The digits of the text after the seventh digit behind the point.
TextBeyondSeven(chars) ==
    DigitsOf(SubSeq(TextFrac(chars), 8, Len(TextFrac(chars))))

\* The digits of the integer part of the value times 10^7.
TextScaled(chars) ==
    LET frac == DigitsOf(TextFrac(chars))
        seven == IF Len(frac) >= 7 THEN SubSeq(frac, 1, 7)
                 ELSE frac \o Zeros(7 - Len(frac))
    IN  StripLeadingZeros(DigitsOf(TextInt(chars)) \o seven)

\* The value times 10^7 exceeds 9223372036854775807.
TextExceeds(chars) ==
    \/ DigitsGreater(TextScaled(chars), MaxInt64)
    \/ TextScaled(chars) = MaxInt64 /\ ~AllZero(TextBeyondSeven(chars))

C12_ExactScalingAndInverse ==
    (Returned(amount) /\ DecimalText(value.chars))
        => /\ ~amount.value[1].neg
           /\ ~DigitsGreater(amount.value[1].digits, MaxInt64)
           /\ amount.value[1].digits = TextScaled(value.chars)
           /\ AllZero(TextBeyondSeven(value.chars))
           /\ (Returned(back) => to_xdr_amount(back.value[1]) = amount)

\* C13: Operation.from_xdr_object returns an instance of the variant whose
\* type code is the discriminant of the XDR operation body, and raises
\* NotImplementedError when no variant has that type code.
C13_DispatchOnTypeCode ==
    (codec_in.call = "Operation.from_xdr_object" /\ codec_out # NoOutcome)
        => LET discriminant == codec_in.args[1].body.type
           IN  IF \E i \in 1..Len(Operation_subclasses) :
                     Operation_subclasses[i].type_code = discriminant
               THEN Returned(codec_out) /\ codec_out.value[1].type_code = discriminant
               ELSE Raised(codec_out, "NotImplementedError")

\* An XDR operation whose discriminant is the type code of a variant that is
\* not the first one has been decoded.
C13_Witness ==
    /\ codec_in.call = "Operation.from_xdr_object"
    /\ Returned(codec_out)
    /\ codec_out.value[1].type_code = "ACCOUNT_MERGE"
    /\ codec_out.value[1].source # None

\* C14: the source override of an operation survives encoding:
\* get_source_from_xdr_obj(op.to_xdr_object()) is None when op.source is None
\* and is op.source, sub-id included, otherwise.
C14_SourceSurvivesEncoding ==
    (codec_in.call = "Operation.to_xdr_object" /\ codec_out # NoOutcome)
        => /\ Returned(codec_out)
           /\ codec_back # NoOutcome => codec_back = Return(codec_in.args[1].source)

\* C15: Transaction.from_xdr_object(t.to_xdr_object(), v1=t.v1) is t: the
\* source with its sub-id, the sequence, the fee, the operations in order, the
\* memo, the time bounds and the version flag.
C15_TransactionRoundTrip ==
    (codec_in.call = "Transaction.to_xdr_object" /\ codec_out # NoOutcome)
        => /\ Returned(codec_out)
           /\ LET t == codec_in.args[1]
                  decoded == Transaction_from_xdr_object(codec_out.value[1], t.v1)
              IN  Returned(decoded) /\ decoded.value[1] = t

\* C16: Transaction.to_xdr_object emits the extension 0, and
\* Transaction.from_xdr_object of an XDR transaction whose extension is not 0
\* fails.
C16_ExtensionIsZero ==
    /\ (codec_in.call = "Transaction.to_xdr_object" /\ codec_out # NoOutcome)
          => Returned(codec_out) /\ codec_out.value[1].ext = 0
    /\ ( /\ codec_in.call = "Transaction.from_xdr_object"
         /\ codec_out # NoOutcome
         /\ codec_in.args[1].ext # 0 )
          => ~Returned(codec_out)

\* C17: a transaction and the transaction that differs from it in the
\* version flag alone both encode, and the encodings have the same fee,
\* sequence number, time bounds, memo, operations and extension.
C17_VersionsDifferInSourceOnly ==
    (codec_in.call = "Transaction.to_xdr_object" /\ codec_out # NoOutcome)
        => LET twin == Transaction_to_xdr_object([codec_in.args[1] EXCEPT !.v1 = ~@])
           IN  /\ Returned(codec_out)
               /\ Returned(twin)
               /\ \A field \in {"fee", "seq_num", "time_bounds", "memo", "operations", "ext"} :
                      codec_out.value[1][field] = twin.value[1][field]

\* The lookup found an account whose data entry config.memo_required is "MQ==".
RequiresMemo(lookup) ==
    /\ Returned(lookup.resp)
    /\ dict_get(lookup.resp.value[1].raw_data.data, "config.memo_required") = Some("MQ==")

\* The lookup let the check go on: an account that requires no memo, or
\* NotFoundError.
Passed(lookup) ==
    IF Returned(lookup.resp) THEN ~RequiresMemo(lookup)
    ELSE lookup.resp.exc = "NotFoundError"

\* C18: when a destination that the memo-required check looks up has the
\* data entry config.memo_required = "MQ==", the call ends there with
\* AccountRequiresMemoError carrying that destination and the index of its
\* operation, and posts nothing; a POST is made only when every destination
\* of the check has passed.
C18_MemoRequiredFailsBeforePost ==
    /\ \A k \in 1..Len(server.lookups) :
          RequiresMemo(server.lookups[k])
              => /\ k = Len(server.lookups)
                 /\ server.pc = "done"
                 /\ server.outcome.exc = "AccountRequiresMemoError"
                 /\ server.outcome.detail
                        = <<server.lookups[k].destination, server.lookups[k].index>>
                 /\ server.posts = <<>>
    /\ server.posts # <<>>
          => /\ server.pending = <<>>
             /\ \A k \in 1..Len(server.lookups) : Passed(server.lookups[k])
             /\ \A c \in 1..Len(server.checked) :
                   \/ server.checked[c][2].prefix = MUXED_ACCOUNT_STARTING_LETTER
                   \/ \E k \in 1..Len(server.lookups) :
                         /\ server.lookups[k].destination = server.checked[c][2]
                         /\ server.lookups[k].index = server.checked[c][1]

\* The second destination of a transaction requires a memo, after the first
\* has passed: the call has ended with the error and without a POST.
C18_Witness ==
    /\ Len(server.lookups) = 2
    /\ Passed(server.lookups[1])
    /\ RequiresMemo(server.lookups[2])
    /\ server.outcome.exc = "AccountRequiresMemoError"
    /\ server.posts = <<>>

\* The transaction the memo-required check of the call looks at.
SubmittedTransaction ==
    LET transaction_envelope == server.args[1]
    IN  checked_transaction(IF transaction_envelope.class = "str"
                            THEN transaction_envelope.xdr[2][2].transaction
                            ELSE transaction_envelope.envelope.transaction)

\* The check of the call has asked for the destinations.
CheckedDestinations ==
    /\ server.pc \in {"check", "post", "done"}
    /\ server.args[1].class # "TransactionEnvelope"
    /\ ~server.args[2]
    /\ memo_is_absent(SubmittedTransaction)

MemoSensitive(operation) ==
    operation.type_code \in {"PAYMENT", "ACCOUNT_MERGE", "PATH_PAYMENT_STRICT_RECEIVE",
                             "PATH_PAYMENT_STRICT_SEND"}

DestinationAccountId(operation) == MuxedAccount_from_account(operation.destination).account_id

\* C19: the destinations of the memo-required check are the destination
\* account ids of the Payment, AccountMerge, PathPaymentStrictReceive and
\* PathPaymentStrictSend operations and of no other operation, each once, in
\* the order of the operations, with the index of the first operation that
\* has it.
C19_DestinationsOfSensitiveOperations ==
    CheckedDestinations
        => LET operations == SubmittedTransaction.operations
               produced == server.checked
           IN  /\ \A k \in 1..Len(produced) :
                     LET index == produced[k][1]
                     IN  /\ index \in 0..(Len(operations) - 1)
                         /\ MemoSensitive(operations[index + 1])
                         /\ produced[k][2] = DestinationAccountId(operations[index + 1])
                         /\ \A j \in 1..index :
                               MemoSensitive(operations[j])
                                   => DestinationAccountId(operations[j]) # produced[k][2]
               /\ \A i \in 1..Len(operations) :
                     MemoSensitive(operations[i])
                         => \E k \in 1..Len(produced) :
                               produced[k][2] = DestinationAccountId(operations[i])
               /\ \A k, l \in 1..Len(produced) :
                     k < l => /\ produced[k][1] < produced[l][1]
                              /\ produced[k][2] # produced[l][2]

\* A transaction of four operations, the first not of a sensitive kind and
\* the third with the destination of the second: two destinations.
C19_Witness ==
    /\ CheckedDestinations
    /\ Len(SubmittedTransaction.operations) = 4
    /\ server.checked = << <<1, GAddress(<<"A", "h2">>)>>, <<3, GAddress(<<"B", "h1">>)>> >>

\* C20: signing is deterministic: an envelope and a second envelope of the
\* same transaction and passphrase, each signed once with the same keypair,
\* end with the same signature list, the signature in it; and signature_base()
\* called again on an envelope returns the same bytes.
C20_SigningIsDeterministic ==
    /\ \A i \in Ops({"sign"}) :
          LET second == sign(calls[i].pre, calls[i].arg[1])
          IN  /\ Returned(calls[i].out)
              /\ Returned(second.out)
              /\ second.self.signatures = calls[i].post.signatures
              /\ Len(calls[i].post.signatures) = Len(calls[i].pre.signatures) + 1
    /\ \A i \in Ops({"signature_base"}) : \A j \in Ops({"signature_base"}) :
          calls[i].pre = calls[j].pre
              => /\ Returned(calls[i].out)
                 /\ calls[j].out = calls[i].out

\* The steps thread t took, as positions in the order of all steps.
StepsOf(t) == {i \in 1..Len(threads.steps) : threads.steps[i][1] = t}

\* The calls of a and b did not overlap: one ended before the other began.
Serialized(a, b) ==
    \/ \A i \in StepsOf(a), j \in StepsOf(b) : i < j
    \/ \A i \in StepsOf(a), j \in StepsOf(b) : j < i

\* Both threads looked for the hint before either appended.
BothCheckedFirst(a, b) ==
    \E i \in StepsOf(a), j \in StepsOf(b) :
        /\ threads.steps[i][2] = "check"
        /\ threads.steps[j][2] = "check"
        /\ \A k \in 1..Len(threads.steps) : threads.steps[k][2] = "append" => (i < k /\ j < k)

HintCount(sigs, hint) == Cardinality({i \in 1..Len(sigs) : sigs[i].hint = hint})

\* C21: two threads sign one shared envelope with the same keypair, whose
\* hint the list did not hold.  When the two calls are serialized, exactly one
\* returns and the other raises SignatureExistError; when both look for the
\* hint before either appends, both return and the list holds two signatures
\* of that hint.
C21_SignIsNotAtomic ==
    \A a, b \in Threads :
        ( /\ a # b
          /\ threads.of[a].pc = "done"
          /\ threads.of[b].pc = "done"
          /\ threads.of[a].signer = threads.of[b].signer
          /\ HintCount(signatures, signature_hint(threads.of[a].signer[1]))
                = Cardinality({t \in {a, b} : Returned(threads.of[t].out)}) )
        => /\ Serialized(a, b)
                => \E t \in {a, b}, u \in {a, b} :
                      /\ t # u
                      /\ Returned(threads.of[t].out)
                      /\ RaisedA(threads.of[u].out, "SignatureExistError")
           /\ BothCheckedFirst(a, b)
                => /\ Returned(threads.of[a].out)
                   /\ Returned(threads.of[b].out)
                   /\ HintCount(signatures, signature_hint(threads.of[a].signer[1])) = 2

\* No thread gets past the hash of the signature base.
SignStopsAtHash ==
    \A t \in Threads :
        /\ threads.of[t].pc \notin {"check", "append"}
        /\ threads.of[t].pc = "done" => RaisedA(threads.of[t].out, "NameError")

\* C22: for every argument that is neither a str nor a Decimal (an int, a
\* float, a bool, bytes, None) to_xdr_amount raises the TypeError of
\* exceptions.py, whatever the number is worth, and returns nothing that
\* could be converted back; an argument that is a str or a Decimal never
\* ends in a TypeError.
C22_TypeErrorForOtherTypes ==
    amount # NoOutcome
        => IF value.type \notin {"str", "Decimal"}
           THEN /\ amount.kind = "raise"
                /\ amount.exc = "TypeError"
                /\ IsSubclass(amount.exc, "SdkError")
                /\ IsSubclass(amount.exc, "builtins.TypeError")
                /\ back = NoOutcome
           ELSE ~RaisedA(amount, "builtins.TypeError")

\* to_xdr_amount(1), whose arithmetic would give 10000000, raised TypeError.
C22_Witness ==
    /\ value = PyInt(FALSE, <<1>>)
    /\ RaisedA(amount, "TypeError")
    /\ to_xdr_amount_of_numbers(value) = Return(PyInt(FALSE, <<1, 0, 0, 0, 0, 0, 0, 0>>))

\* C23: a call with skip_memo_required_check true, or whose transaction (the
\* inner one of a fee bump transaction) has a memo, looks up no account and
\* ends after its one POST; no call posts twice, and the call ends with the
\* POST whatever the POST ended with.
C23_NoLookupStraightToPost ==
    /\ Len(server.posts) <= 1
    /\ server.posts # <<>> => server.pc = "done"
    /\ ( /\ server.pc = "done"
         /\ (server.args[2] \/ ~memo_is_absent(SubmittedTransaction)) )
            => /\ server.lookups = <<>>
               /\ Len(server.posts) = 1
               /\ server.posts[1].tx = server.xdr

\* The operation whose destination the lookup is about.
OperationOf(lookup) == SubmittedTransaction.operations[lookup.index + 1]

\* The destination of the operation is a muxed address.
MuxedDestination(operation) ==
    operation.destination.prefix = MUXED_ACCOUNT_STARTING_LETTER

\* The call went on after the lookup: to the next destination, or to the POST.
WentOn(k) ==
    \/ k < Len(server.lookups)
    \/ server.pc \in {"check", "post"}
    \/ server.posts # <<>>

\* C24: in the memo-required check no account is looked up for a destination
\* that is a muxed address, and a lookup that raises NotFoundError does not
\* end the call; after either the check goes on with the destinations that
\* are left, so that one of them that requires a memo ends the call with
\* AccountRequiresMemoError, and the POST is made only when every destination
\* that is not a muxed address has been looked up and has passed.
C24_MuxedAndMissingAreSkipped ==
    server.pc \in {"check", "post", "done"}
        => /\ \A k \in 1..Len(server.lookups) :
                 /\ ~MuxedDestination(OperationOf(server.lookups[k]))
                 /\ RaisedA(server.lookups[k].resp, "NotFoundError") => WentOn(k)
                 /\ RequiresMemo(server.lookups[k])
                       => /\ server.pc = "done"
                          /\ server.outcome.exc = "AccountRequiresMemoError"
                          /\ server.posts = <<>>
           /\ server.posts # <<>>
                 => \A i \in 1..Len(SubmittedTransaction.operations) :
                       LET operation == SubmittedTransaction.operations[i]
                       IN  ( /\ MemoSensitive(operation)
                             /\ ~MuxedDestination(operation)
                             /\ server.checked # <<>> )
                              => \E k \in 1..Len(server.lookups) :
                                    /\ server.lookups[k].destination
                                          = DestinationAccountId(operation)
                                    /\ Passed(server.lookups[k])

\* The call that s is in, carried on over the path async with the responses
\* the client gave, in their order, for as long as they last.
RECURSIVE RunOn(_, _, _, _)
RunOn(async, s, account_resps, post_resps) ==
    IF s.pc = "check"
    THEN IF starts_with_muxed_letter(s)
         THEN RunOn(async,
                    IF async THEN check_memo_required_async(s, NoOutcome)
                    ELSE check_memo_required_sync(s, NoOutcome),
                    account_resps, post_resps)
         ELSE IF account_resps = <<>> THEN s
         ELSE RunOn(async,
                    IF async THEN check_memo_required_async(s, Head(account_resps))
                    ELSE check_memo_required_sync(s, Head(account_resps)),
                    Tail(account_resps), post_resps)
    ELSE IF s.pc = "post" /\ post_resps # <<>>
    THEN IF async THEN post_transaction_async(s, Head(post_resps))
         ELSE post_transaction_sync(s, Head(post_resps))
    ELSE s

\* The call of the state made on a server of the other path, with the same
\* envelope and flag and the same responses of the client.
OnOtherPath ==
    LET other == [NoSubmission EXCEPT !.async = ~server.async]
        begun == submit_transaction(other, server.args[1], server.args[2])
    IN  RunOn(other.async, begun,
              [k \in 1..Len(server.lookups) |-> server.lookups[k].resp],
              [k \in 1..Len(server.posts) |-> server.posts[k].resp])

\* The constructor was given a client of one of the two base classes, or none.
ClientGiven == server.client_arg.class \in {"BaseSyncClient", "BaseAsyncClient"}
NoClientGiven == server.client_arg.class = "NoneType"

\* C25: the path is fixed by the type of the client the constructor is given
\* (asynchronous for an asynchronous client, synchronous for a synchronous one
\* or none), and a client of neither type is rejected with TypeError; a call
\* on one path issues the lookups, in their order, and the POST, and ends with
\* the result or error, that the same call with the same responses issues and
\* ends with on the other path.
C25_PathsAreEquivalent ==
    /\ (ClientGiven \/ NoClientGiven)
          => /\ server.pc # "no server"
             /\ server.async = (server.client_arg.class = "BaseAsyncClient")
    /\ ~(ClientGiven \/ NoClientGiven)
          => /\ server.pc = "no server"
             /\ RaisedA(server.outcome, "TypeError")
    /\ server.pc \in {"check", "post", "done"}
          => /\ OnOtherPath.lookups = server.lookups
             /\ OnOtherPath.posts = server.posts
             /\ OnOtherPath.outcome = server.outcome
             /\ OnOtherPath.pc = server.pc

=============================================================================
